---- MODULE Spec2Model ----
(***************************************************************************)
(* A model of src/src/option.rs: the MyOption<T> combinator library.       *)
(*                                                                         *)
(* The state is a caller that owns one binding `x: MyOption<T>`, calls one *)
(* method per step on it (or on the temporary the previous call returned,  *)
(* as in `x.and_then(f).and_then(g)`), and records what the call did: the  *)
(* receiver it saw, its arguments, its return value or panic, and how many *)
(* times each caller-supplied closure was invoked.                         *)
(***************************************************************************)
EXTENDS Integers, Sequences, FiniteSets, TLC

\* Payloads of type T (and U, E) are the integers 0..MaxVal.
MaxVal == 4

Vals == 0..MaxVal

----------------------------------------------------------------------------
(* Values *)

\* enum MyOption<T> { None, Some(T) }
None == [tag |-> "None"]

Some(t) == [tag |-> "Some", val |-> t]

MyOption == {None} \cup {Some(t) : t \in Vals}

\* std Result<T, E>, returned by ok_or / ok_or_else
Ok(t) == [tag |-> "Ok", val |-> t]

Err(e) == [tag |-> "Err", val |-> e]

\* The payload of the MyOption<&T> / MyOption<&mut T> that as_ref / as_mut
\* return: a reference to the payload slot of the receiver.
Ref == [ref |-> "shared"]

RefMut == [ref |-> "mut"]

\* A return value, tagged with its Rust type so that values of different
\* types are never compared.
RetBool(b) == [kind |-> "bool", v |-> b]

RetT(t) == [kind |-> "T", v |-> t]

RetOpt(o) == [kind |-> "MyOption", v |-> o]

RetRes(r) == [kind |-> "Result", v |-> r]

\* MyOption<&T>, returned by as_ref
RetOptRef(o) == [kind |-> "MyOption<&T>", v |-> o]

\* MyOption<&mut T>, returned by as_mut
RetOptMut(o) == [kind |-> "MyOption<&mut T>", v |-> o]

\* A call that panicked returned nothing (`-> !`).
NoRet == [kind |-> "never"]

\* The literal of the panic! in MyOption::unwrap (its backquotes written as
\* apostrophes: a TLA+ string cannot hold a backquote).
UnwrapMsg == "called 'MyOption::unwrap()' on a 'None' value"

\* The message of a caller-supplied closure that panics when called.
BoomMsg == "closure panicked"

----------------------------------------------------------------------------
(* Caller-supplied closures.  A closure is a record naming its body; Call  *)
(* runs it.  A call either returns a value or panics with a message.       *)

Returns(v) == [ok |-> TRUE, val |-> v, msg |-> ""]

Panics(m) == [ok |-> FALSE, val |-> NoRet, msg |-> m]

\* || d: a closure returning a captured value (|| 0, || 2 * k, vikings, nobody)
Konst(d) == [kind |-> "konst", v |-> d]

\* a closure that panics when called
Boom == [kind |-> "boom"]

\* fn sq(x: u32) -> MyOption<u32> { MyOption::Some(x * x) }
Sq == [kind |-> "sq"]

\* fn nope(_: u32) -> MyOption<u32> { MyOption::None }
Nope == [kind |-> "nope"]

\* fn is_even(n: &i32) -> bool { n % 2 == 0 }
IsEven == [kind |-> "is_even"]

\* |v| v + 1, a T -> U mapping in the role of the tests' |v| v.len()
Succ == [kind |-> "succ"]

\* |v| f(v).and_then(g)
Bind(f, g) == [kind |-> "bind", f |-> f, g |-> g]

RECURSIVE Call(_, _)

----------------------------------------------------------------------------
(* What one method call did.                                               *)
(*   ret      the value returned (NoRet after a panic)                     *)
(*   self     the receiver afterwards: Moved for a method taking `self`    *)
(*            by value, the value left in place for `&self` / `&mut self`  *)
(*   calls    how many times each closure argument was invoked             *)

\* A binding whose value was moved out by a by-value method.
Moved == [tag |-> "moved"]

NoCalls == [default |-> 0, f |-> 0, predicate |-> 0]

CalledDefault == [default |-> 1, f |-> 0, predicate |-> 0]

CalledF == [default |-> 0, f |-> 1, predicate |-> 0]

CalledPredicate == [default |-> 0, f |-> 0, predicate |-> 1]

Done(r, after, n) ==
    [panicked |-> FALSE, msg |-> "", ret |-> r, self |-> after, calls |-> n]

Panic(m, after, n) ==
    [panicked |-> TRUE, msg |-> m, ret |-> NoRet, self |-> after, calls |-> n]

----------------------------------------------------------------------------
(* impl<T> MyOption<T> *)

\* pub const fn is_some(&self) -> bool
is_some(self) ==
    Done(RetBool(self.tag = "Some"), self, NoCalls)

\* pub const fn is_none(&self) -> bool { !self.is_some() }
is_none(self) ==
    LET r == is_some(self) IN Done(RetBool(~r.ret.v), r.self, NoCalls)

\* pub const fn as_ref(&self) -> MyOption<&T>
as_ref(self) ==
    IF self.tag = "Some"
    THEN Done(RetOptRef(Some(Ref)), self, NoCalls)
    ELSE Done(RetOptRef(None), self, NoCalls)

\* as_mut written as a take(): the payload is moved out and None left behind
as_mut_taking(self) ==
    IF self.tag = "Some"
    THEN Done(RetOptMut(Some(RefMut)), None, NoCalls)
    ELSE Done(RetOptMut(None), self, NoCalls)

\* pub fn as_mut(&mut self) -> MyOption<&mut T>
as_mut(self) ==
    IF self.tag = "Some"
    THEN Done(RetOptMut(Some(RefMut)), self, NoCalls)
    ELSE Done(RetOptMut(None), self, NoCalls)

\* *v = new, written through the &mut T that as_mut returned on Some
write_through(self, new) ==
    Done([kind |-> "unit"], Some(new), NoCalls)

\* map that runs f on a default payload when there is none
map_of_default(self, f) ==
    LET r == Call(f, IF self.tag = "Some" THEN self.val ELSE 0) IN
    IF r.ok THEN Done(RetOpt(Some(r.val)), Moved, CalledF)
            ELSE Panic(r.msg, Moved, CalledF)

\* pub fn map<U, F>(self, f: F) -> MyOption<U>
map(self, f) ==
    IF self.tag = "Some"
    THEN LET r == Call(f, self.val) IN
         IF r.ok THEN Done(RetOpt(Some(r.val)), Moved, CalledF)
                 ELSE Panic(r.msg, Moved, CalledF)
    ELSE Done(RetOpt(None), Moved, NoCalls)

\* pub fn map_or<F, U>(self, default: U, f: F) -> U
map_or(self, default, f) ==
    IF self.tag = "Some"
    THEN LET r == Call(f, self.val) IN
         IF r.ok THEN Done(RetT(r.val), Moved, CalledF)
                 ELSE Panic(r.msg, Moved, CalledF)
    ELSE Done(RetT(default), Moved, NoCalls)

\* pub fn map_or_else<U, D, F>(self, default: D, f: F) -> U
map_or_else(self, default, f) ==
    IF self.tag = "Some"
    THEN LET r == Call(f, self.val) IN
         IF r.ok THEN Done(RetT(r.val), Moved, CalledF)
                 ELSE Panic(r.msg, Moved, CalledF)
    ELSE LET d == Call(default, <<>>) IN
         IF d.ok THEN Done(RetT(d.val), Moved, CalledDefault)
                 ELSE Panic(d.msg, Moved, CalledDefault)

\* unwrap that falls back to a default payload on None instead of panicking
unwrap_defaulting(self) ==
    IF self.tag = "Some"
    THEN Done(RetT(self.val), Moved, NoCalls)
    ELSE Done(RetT(0), Moved, NoCalls)

\* pub fn unwrap(self) -> T
unwrap(self) ==
    IF self.tag = "Some"
    THEN Done(RetT(self.val), Moved, NoCalls)
    ELSE Panic(UnwrapMsg, Moved, NoCalls)

\* unwrap_or that returns the default whatever the receiver is
unwrap_or_always_default(self, default) ==
    Done(RetT(default), Moved, NoCalls)

\* pub fn unwrap_or(self, default: T) -> T
unwrap_or(self, default) ==
    IF self.tag = "Some"
    THEN Done(RetT(self.val), Moved, NoCalls)
    ELSE Done(RetT(default), Moved, NoCalls)

\* unwrap_or_else whose None arm is the one of unwrap
unwrap_or_else_panicking(self, f) ==
    IF self.tag = "Some"
    THEN Done(RetT(self.val), Moved, NoCalls)
    ELSE Panic(UnwrapMsg, Moved, NoCalls)

\* pub fn unwrap_or_else<F>(self, f: F) -> T
unwrap_or_else(self, f) ==
    IF self.tag = "Some"
    THEN Done(RetT(self.val), Moved, NoCalls)
    ELSE LET d == Call(f, <<>>) IN
         IF d.ok THEN Done(RetT(d.val), Moved, CalledDefault)
                 ELSE Panic(d.msg, Moved, CalledDefault)

\* pub fn ok_or<E>(self, err: E) -> Result<T, E>
ok_or(self, err) ==
    IF self.tag = "Some"
    THEN Done(RetRes(Ok(self.val)), Moved, NoCalls)
    ELSE Done(RetRes(Err(err)), Moved, NoCalls)

\* pub fn ok_or_else<E, F>(self, f: F) -> Result<T, E>
ok_or_else(self, f) ==
    IF self.tag = "Some"
    THEN Done(RetRes(Ok(self.val)), Moved, NoCalls)
    ELSE LET d == Call(f, <<>>) IN
         IF d.ok THEN Done(RetRes(Err(d.val)), Moved, CalledDefault)
                 ELSE Panic(d.msg, Moved, CalledDefault)

\* pub fn and<U>(self, optb: MyOption<U>) -> MyOption<U>
and(self, optb) ==
    IF self.tag = "Some"
    THEN Done(RetOpt(optb), Moved, NoCalls)
    ELSE Done(RetOpt(None), Moved, NoCalls)

\* and_then that runs f on a default payload when there is none
and_then_of_default(self, f) ==
    LET r == Call(f, IF self.tag = "Some" THEN self.val ELSE 0) IN
    IF r.ok THEN Done(RetOpt(r.val), Moved, CalledF)
            ELSE Panic(r.msg, Moved, CalledF)

\* pub fn and_then<U, F>(self, f: F) -> MyOption<U>
and_then(self, f) ==
    IF self.tag = "Some"
    THEN LET r == Call(f, self.val) IN
         IF r.ok THEN Done(RetOpt(r.val), Moved, CalledF)
                 ELSE Panic(r.msg, Moved, CalledF)
    ELSE Done(RetOpt(None), Moved, NoCalls)

\* filter whose match guard is negated
filter_negated(self, predicate) ==
    IF self.tag = "Some"
    THEN LET p == Call(predicate, self.val) IN
         IF ~p.ok THEN Panic(p.msg, Moved, CalledPredicate)
         ELSE IF ~p.val THEN Done(RetOpt(Some(self.val)), Moved, CalledPredicate)
         ELSE Done(RetOpt(None), Moved, CalledPredicate)
    ELSE Done(RetOpt(None), Moved, NoCalls)

\* pub fn filter<P>(self, predicate: P) -> MyOption<T>
\*   Some(t) if predicate(&t) => Some(t),  _ => None
filter(self, predicate) ==
    IF self.tag = "Some"
    THEN LET p == Call(predicate, self.val) IN
         IF ~p.ok THEN Panic(p.msg, Moved, CalledPredicate)
         ELSE IF p.val THEN Done(RetOpt(Some(self.val)), Moved, CalledPredicate)
         ELSE Done(RetOpt(None), Moved, CalledPredicate)
    ELSE Done(RetOpt(None), Moved, NoCalls)

\* or that prefers optb whenever optb is Some
or_preferring_optb(self, optb) ==
    IF optb.tag = "Some"
    THEN Done(RetOpt(optb), Moved, NoCalls)
    ELSE Done(RetOpt(self), Moved, NoCalls)

\* pub fn or(self, optb: MyOption<T>) -> MyOption<T>
or(self, optb) ==
    IF self.tag = "Some"
    THEN Done(RetOpt(self), Moved, NoCalls)
    ELSE Done(RetOpt(optb), Moved, NoCalls)

\* or_else that runs f before the match
or_else_eager(self, f) ==
    LET d == Call(f, <<>>) IN
    IF ~d.ok THEN Panic(d.msg, Moved, CalledDefault)
    ELSE IF self.tag = "Some" THEN Done(RetOpt(self), Moved, CalledDefault)
    ELSE Done(RetOpt(d.val), Moved, CalledDefault)

\* pub fn or_else<F>(self, f: F) -> MyOption<T>
or_else(self, f) ==
    IF self.tag = "Some"
    THEN Done(RetOpt(self), Moved, NoCalls)
    ELSE LET d == Call(f, <<>>) IN
         IF d.ok THEN Done(RetOpt(d.val), Moved, CalledDefault)
                 ELSE Panic(d.msg, Moved, CalledDefault)

\* xor without the both-Some case: an inclusive or
xor_inclusive(self, optb) ==
    IF self.tag = "Some" THEN Done(RetOpt(Some(self.val)), Moved, NoCalls)
    ELSE IF optb.tag = "Some" THEN Done(RetOpt(Some(optb.val)), Moved, NoCalls)
    ELSE Done(RetOpt(None), Moved, NoCalls)

\* pub fn xor(self, optb: MyOption<T>) -> MyOption<T>
xor(self, optb) ==
    IF self.tag = "Some" /\ optb.tag = "None" THEN Done(RetOpt(Some(self.val)), Moved, NoCalls)
    ELSE IF self.tag = "None" /\ optb.tag = "Some" THEN Done(RetOpt(Some(optb.val)), Moved, NoCalls)
    ELSE Done(RetOpt(None), Moved, NoCalls)

\* Running a closure on argument a (<<>> for a closure of no arguments).
Call(c, a) ==
    CASE c.kind = "konst" -> Returns(c.v)
      [] c.kind = "boom" -> Panics(BoomMsg)
      [] c.kind = "sq" -> Returns(Some(a * a))
      [] c.kind = "nope" -> Returns(None)
      [] c.kind = "is_even" -> Returns(a % 2 = 0)
      [] c.kind = "succ" -> Returns(a + 1)
      [] c.kind = "bind" ->
            LET r == Call(c.f, a) IN
            IF ~r.ok THEN r
            ELSE LET s == and_then(r.val, c.g) IN
                 IF s.panicked THEN Panics(s.msg) ELSE Returns(s.ret.v)

----------------------------------------------------------------------------
(* The closures and arguments the caller picks from. *)

\* F: FnOnce(T) -> U
MapFns == {Succ, Konst(0), Boom}

\* D: FnOnce() -> U, F: FnOnce() -> T, F: FnOnce() -> E
DefaultFns == {Konst(d) : d \in Vals} \cup {Boom}

\* F: FnOnce(T) -> MyOption<U>
OptFns == {Sq, Nope, Boom}

\* F: FnOnce() -> MyOption<T>
OptProducers == {Konst(o) : o \in MyOption} \cup {Boom}

\* P: FnOnce(&T) -> bool
Predicates == {IsEven, Konst(TRUE), Boom}

----------------------------------------------------------------------------
(* The caller *)

VARIABLES
    x,        \* the caller's binding: a MyOption, or Moved
    op,       \* the last method called ("let" after a construction)
    recv,     \* the receiver that call saw
    arg,      \* its arguments
    ret,      \* what it returned (NoRet: nothing)
    outcome,  \* "returned", or "panicked": the caller was aborted
    msg,      \* the panic message ("" when none)
    calls,    \* closure invocations made by the call
    prev      \* the call whose returned temporary was the receiver, or NoPrev

vars == <<x, op, recv, arg, ret, outcome, msg, calls, prev>>

NoArg == [none |-> TRUE]

NoPrev == [op |-> "none"]

\* Where a call takes its receiver: the binding x, or the temporary the
\* previous call returned (method chaining).  A temporary is chained on while
\* its payload is in Vals, which keeps the payloads bounded.
Sources == {"x", "tmp"}

HasTmp ==
    /\ outcome = "returned"
    /\ ret.kind = "MyOption"
    /\ ret.v \in MyOption

Usable(src) ==
    /\ outcome = "returned"
    /\ IF src = "x" THEN x # Moved ELSE HasTmp

Receiver(src) == IF src = "x" THEN x ELSE ret.v

\* The caller's state after calling method `name` with arguments a, res being
\* what the method did.
Record(name, src, a, res) ==
    /\ op' = name
    /\ recv' = Receiver(src)
    /\ arg' = a
    /\ ret' = res.ret
    /\ outcome' = IF res.panicked THEN "panicked" ELSE "returned"
    /\ msg' = res.msg
    /\ calls' = res.calls
    /\ x' = IF src = "x" THEN res.self ELSE x
    /\ prev' = IF src = "tmp" THEN [op |-> op, recv |-> recv, arg |-> arg] ELSE NoPrev

\* let x = MyOption::Some(v) / MyOption::None
Let ==
    \E o \in MyOption :
        /\ outcome = "returned"
        /\ x' = o
        /\ op' = "let"
        /\ recv' = o
        /\ arg' = NoArg
        /\ ret' = NoRet
        /\ outcome' = "returned"
        /\ msg' = ""
        /\ calls' = NoCalls
        /\ prev' = NoPrev

IsSome ==
    \E src \in Sources :
        Usable(src) /\ Record("is_some", src, NoArg, is_some(Receiver(src)))

IsNone ==
    \E src \in Sources :
        Usable(src) /\ Record("is_none", src, NoArg, is_none(Receiver(src)))

\* as_ref_test: the receiver of as_ref is a named binding
AsRef ==
    Usable("x") /\ Record("as_ref", "x", NoArg, as_ref(x))

\* as_mut_test: the receiver of as_mut is a named binding
AsMut ==
    Usable("x") /\ Record("as_mut", "x", NoArg, as_mut(x))

\* as_mut_test: match x.as_mut() { Some(v) => *v = 42, None => {} }
WriteThrough ==
    \E new \in Vals :
        /\ outcome = "returned"
        /\ op = "as_mut"
        /\ ret = RetOptMut(Some(RefMut))
        /\ Record("write", "x", [new |-> new], write_through(x, new))

Map ==
    \E src \in Sources, f \in MapFns :
        Usable(src) /\ Record("map", src, [f |-> f], map(Receiver(src), f))

MapOr ==
    \E src \in Sources, d \in Vals, f \in MapFns :
        Usable(src)
        /\ Record("map_or", src, [default |-> d, f |-> f], map_or(Receiver(src), d, f))

MapOrElse ==
    \E src \in Sources, d \in DefaultFns, f \in MapFns :
        Usable(src)
        /\ Record("map_or_else", src, [default |-> d, f |-> f],
                  map_or_else(Receiver(src), d, f))

Unwrap ==
    \E src \in Sources :
        Usable(src) /\ Record("unwrap", src, NoArg, unwrap(Receiver(src)))

UnwrapOr ==
    \E src \in Sources, d \in Vals :
        Usable(src)
        /\ Record("unwrap_or", src, [default |-> d], unwrap_or(Receiver(src), d))

UnwrapOrElse ==
    \E src \in Sources, f \in DefaultFns :
        Usable(src)
        /\ Record("unwrap_or_else", src, [f |-> f], unwrap_or_else(Receiver(src), f))

OkOr ==
    \E src \in Sources, e \in Vals :
        Usable(src) /\ Record("ok_or", src, [err |-> e], ok_or(Receiver(src), e))

OkOrElse ==
    \E src \in Sources, f \in DefaultFns :
        Usable(src)
        /\ Record("ok_or_else", src, [f |-> f], ok_or_else(Receiver(src), f))

And ==
    \E src \in Sources, optb \in MyOption :
        Usable(src) /\ Record("and", src, [optb |-> optb], and(Receiver(src), optb))

AndThen ==
    \E src \in Sources, f \in OptFns :
        Usable(src) /\ Record("and_then", src, [f |-> f], and_then(Receiver(src), f))

Filter ==
    \E src \in Sources, p \in Predicates :
        Usable(src)
        /\ Record("filter", src, [predicate |-> p], filter(Receiver(src), p))

Or ==
    \E src \in Sources, optb \in MyOption :
        Usable(src) /\ Record("or", src, [optb |-> optb], or(Receiver(src), optb))

OrElse ==
    \E src \in Sources, f \in OptProducers :
        Usable(src) /\ Record("or_else", src, [f |-> f], or_else(Receiver(src), f))

Xor ==
    \E src \in Sources, optb \in MyOption :
        Usable(src) /\ Record("xor", src, [optb |-> optb], xor(Receiver(src), optb))

Init ==
    /\ x \in MyOption
    /\ op = "let"
    /\ recv = x
    /\ arg = NoArg
    /\ ret = NoRet
    /\ outcome = "returned"
    /\ msg = ""
    /\ calls = NoCalls
    /\ prev = NoPrev

Next ==
    \/ Let
    \/ IsSome
    \/ IsNone
    \/ AsRef
    \/ AsMut
    \/ WriteThrough
    \/ Map
    \/ MapOr
    \/ MapOrElse
    \/ Unwrap
    \/ UnwrapOr
    \/ UnwrapOrElse
    \/ OkOr
    \/ OkOrElse
    \/ And
    \/ AndThen
    \/ Filter
    \/ Or
    \/ OrElse
    \/ Xor

Spec == Init /\ [][Next]_vars

----------------------------------------------------------------------------
(* Properties *)

IsSomeOpt(o) == o.tag = "Some"

\* The default-producing closure of a lazy method call.
LazyOps == {"or_else", "unwrap_or_else", "map_or_else", "ok_or_else"}

DefaultFnOf(o, a) == IF o = "map_or_else" THEN a.default ELSE a.f

\* The closures the last call was given.
ClosureArgs ==
    CASE op \in {"map", "map_or", "and_then"} -> {arg.f}
      [] op = "map_or_else" -> {arg.default, arg.f}
      [] op \in {"unwrap_or_else", "ok_or_else", "or_else"} -> {arg.f}
      [] op = "filter" -> {arg.predicate}
      [] OTHER -> {}

\* C1: unwrap on Some(t) returns t; on None it returns nothing and panics
\* with the one fixed message of MyOption::unwrap, never a default value.
C1_UnwrapSomeOrFixedPanic ==
    op = "unwrap" =>
        IF IsSomeOpt(recv)
        THEN outcome = "returned" /\ ret = RetT(recv.val) /\ msg = ""
        ELSE outcome = "panicked" /\ ret = NoRet /\ msg = UnwrapMsg

C1_Witness ==
    op = "unwrap" /\ recv = None /\ outcome = "panicked" /\ msg = UnwrapMsg

\* C2: a lazy method (or_else, unwrap_or_else, map_or_else, ok_or_else) invokes
\* its default-producing closure zero times on a Some receiver and exactly once
\* on None; a default closure that would panic does not make a call on Some
\* panic.
C2_LazyDefaultInvokedOnlyOnNone ==
    op \in LazyOps =>
        /\ calls.default = (IF IsSomeOpt(recv) THEN 0 ELSE 1)
        /\ (IsSomeOpt(recv) /\ DefaultFnOf(op, arg) = Boom
               /\ (op = "map_or_else" => arg.f # Boom))
            => outcome = "returned"

C2_Witness ==
    /\ op = "or_else" /\ recv = Some(1) /\ arg.f = Boom
    /\ outcome = "returned" /\ calls.default = 0

\* C3: x.and_then(f).and_then(g) is x.and_then(|v| f(v).and_then(g)), and a
\* None receiver, a None from f or a None from g makes the chain None.
C3_AndThenAssociative ==
    /\ (op = "and_then" /\ prev.op = "and_then") =>
          LET nested == and_then(prev.recv, Bind(prev.arg.f, arg.f)) IN
          /\ ret = nested.ret
          /\ (outcome = "panicked") = nested.panicked
          /\ (prev.recv = None \/ recv = None) => ret = RetOpt(None)
          /\ (IsSomeOpt(recv) /\ Call(arg.f, recv.val).ok
                 /\ Call(arg.f, recv.val).val = None) => ret = RetOpt(None)
    /\ (op = "and_then" /\ outcome = "returned") =>
          \A g \in OptFns :
              and_then(ret.v, g).ret = and_then(recv, Bind(arg.f, g)).ret

C3_Witness ==
    /\ op = "and_then" /\ prev.op = "and_then"
    /\ prev.recv = Some(2) /\ prev.arg.f = Sq /\ arg.f = Sq
    /\ ret = RetOpt(Some(16))

\* C4: x.xor(y) is Some exactly when exactly one of x, y is Some, and then it is
\* that side unchanged; both Some (equal payloads too) or both None give None.
C4_XorExactlyOne ==
    op = "xor" =>
        /\ outcome = "returned"
        /\ IsSomeOpt(ret.v) = (IsSomeOpt(recv) # IsSomeOpt(arg.optb))
        /\ (IsSomeOpt(recv) /\ ~IsSomeOpt(arg.optb)) => ret.v = recv
        /\ (~IsSomeOpt(recv) /\ IsSomeOpt(arg.optb)) => ret.v = arg.optb
        /\ (IsSomeOpt(recv) = IsSomeOpt(arg.optb)) => ret.v = None

C4_Witness ==
    op = "xor" /\ recv = Some(2) /\ arg.optb = Some(2) /\ ret = RetOpt(None)

\* C5: filter(pred) returns Some(t) unchanged when the receiver is Some(t) and
\* pred(t) holds, None when pred(t) fails or the receiver is None; pred is not
\* invoked on None and at most once on Some.
C5_FilterKeepsOnlyWherePredicateHolds ==
    op = "filter" =>
        IF IsSomeOpt(recv)
        THEN /\ calls.predicate <= 1
             /\ LET p == Call(arg.predicate, recv.val) IN
                p.ok => /\ outcome = "returned"
                        /\ ret = RetOpt(IF p.val THEN recv ELSE None)
        ELSE calls.predicate = 0 /\ outcome = "returned" /\ ret = RetOpt(None)

C5_Witness ==
    /\ op = "filter" /\ recv = Some(3) /\ arg.predicate = IsEven
    /\ ret = RetOpt(None) /\ calls.predicate = 1

\* C6: map(f) on None is None whatever f is, without invoking f; on Some(t) it
\* is Some(f(t)) with f invoked exactly once: the active variant is kept.
C6_MapKeepsVariant ==
    op = "map" =>
        IF IsSomeOpt(recv)
        THEN /\ calls.f = 1
             /\ LET r == Call(arg.f, recv.val) IN
                r.ok => outcome = "returned" /\ ret = RetOpt(Some(r.val))
        ELSE calls.f = 0 /\ outcome = "returned" /\ ret = RetOpt(None)

C6_Witness ==
    /\ op = "map" /\ recv = None /\ arg.f = Boom
    /\ outcome = "returned" /\ ret = RetOpt(None)

\* C7: unwrap_or(default) returns v on Some(v), whatever default is, and
\* default on None; it never panics.
C7_UnwrapOr ==
    op = "unwrap_or" =>
        /\ outcome = "returned"
        /\ ret = RetT(IF IsSomeOpt(recv) THEN recv.val ELSE arg.default)

C7_Witness ==
    op = "unwrap_or" /\ recv = Some(1) /\ arg.default = 3 /\ ret = RetT(1)

\* C8: unwrap is the single fallible operation: every other method returns a
\* result for every receiver and argument as long as the closures it is given
\* return, so a panic comes from unwrap on None alone.
C8_OnlyUnwrapPanics ==
    /\ (outcome = "panicked" /\ Boom \notin ClosureArgs) =>
           op = "unwrap" /\ recv = None /\ msg = UnwrapMsg
    /\ (op \notin {"let", "write", "unwrap"} /\ Boom \notin ClosureArgs) =>
           outcome = "returned" /\ ret # NoRet
    /\ outcome = "panicked" => msg \in {UnwrapMsg, BoomMsg}
    /\ msg = UnwrapMsg => op = "unwrap"

C8_Witness ==
    /\ op = "unwrap_or_else" /\ recv = None /\ arg.f = Konst(2)
    /\ outcome = "returned" /\ ret = RetT(2)

\* C9: as_ref and as_mut keep the receiver's variant: as_ref leaves the receiver
\* as it was and usable, a write through as_mut's reference on Some(v) replaces
\* the payload alone, as_mut on None returns None and leaves None; no other
\* method changes a value in place.
C9_OnlyAsMutWritesInPlace ==
    [][ /\ op' = "as_ref" =>
              x' = x /\ x' # Moved /\ IsSomeOpt(ret'.v) = IsSomeOpt(x)
        /\ op' = "as_mut" =>
              x' = x /\ x' # Moved /\ IsSomeOpt(ret'.v) = IsSomeOpt(x)
        /\ op' = "write" => IsSomeOpt(x) /\ x' = Some(arg'.new)
        /\ op' \notin {"let", "write"} => x' \in {x, Moved} ]_vars

C9_Witness ==
    op = "write" /\ recv = Some(2) /\ arg.new = 4 /\ x = Some(4)

\* C10: each eager method returns what its lazy counterpart returns when given
\* a closure returning the eager argument: unwrap_or / unwrap_or_else,
\* map_or / map_or_else, ok_or / ok_or_else (Ok(t) on Some(t), Err(e) on None),
\* or / or_else.
C10_EagerEqualsLazy ==
    /\ op = "unwrap_or" => ret = unwrap_or_else(recv, Konst(arg.default)).ret
    /\ (op = "unwrap_or_else" /\ arg.f # Boom) => ret = unwrap_or(recv, arg.f.v).ret
    /\ op = "map_or" => ret = map_or_else(recv, Konst(arg.default), arg.f).ret
    /\ (op = "map_or_else" /\ arg.default # Boom) =>
           ret = map_or(recv, arg.default.v, arg.f).ret
    /\ op = "ok_or" =>
           /\ ret = ok_or_else(recv, Konst(arg.err)).ret
           /\ ret = RetRes(IF IsSomeOpt(recv) THEN Ok(recv.val) ELSE Err(arg.err))
    /\ (op = "ok_or_else" /\ arg.f # Boom) => ret = ok_or(recv, arg.f.v).ret
    /\ op = "or" => ret = or_else(recv, Konst(arg.optb)).ret
    /\ (op = "or_else" /\ arg.f # Boom) => ret = or(recv, arg.f.v).ret

C10_Witness ==
    /\ op = "ok_or_else" /\ recv = None /\ arg.f = Konst(0)
    /\ ret = RetRes(Err(0))

====
